---- MODULE Spec2Model ----
(***************************************************************************)
(* Model of src/utils.py: the decoder of the sensor's advertisement        *)
(* payload (hex_to_bytearray, parse_payload), the pulse-echo estimator     *)
(* (adjust_amplitude, compute_pulse_echo_time2), the level conversions     *)
(* and process_hex_string.                                                 *)
(*                                                                         *)
(* Numbers.  Every float the code computes from a decoded frame is a       *)
(* dyadic or decimal rational small enough to be exact in a double, so it  *)
(* is carried here as an integer in a fixed unit:                          *)
(*   time offsets 'i'        half time units (as in the code)              *)
(*   adjust_amplitude        units of 2^-17                                *)
(*   n_arr, m_arr            units of 2^-18                                *)
(*   score_filt              units of 2^-20                                *)
(*   tof                     units of 1e-5   (2e-5 * n_index = 2*n_index)  *)
(*   level_inches            units of 1e-3                                 *)
(*   level_cm                units of 1e-5                                 *)
(*   tank_height             units of 1e-4 metre                           *)
(*   battery_voltage, temperature_c   hundredths (the code rounds to 2)    *)
(***************************************************************************)
EXTENDS Integers, Sequences, FiniteSets, TLC

VARIABLES pc, hex_string, tank_height, result, peak_data, echo, pinned

vars == <<pc, hex_string, tank_height, result, peak_data, echo, pinned>>

\* Python's None, as returned by hex_to_bytearray, parse_payload and
\* process_hex_string.
None == [none |-> TRUE]

\* ------------------------------------------------------------------------
\* Arithmetic helpers

Min2(x, y) == IF x < y THEN x ELSE y

\* Python round() of the rational num/den (den > 0): nearest integer, ties
\* to the even one.  \div rounds down, also for a negative num.
py_round(num, den) ==
    LET fl == num \div den
        twice == 2 * (num - fl * den)
    IN  IF twice < den THEN fl
        ELSE IF twice > den THEN fl + 1
        ELSE IF fl % 2 = 0 THEN fl ELSE fl + 1

\* ------------------------------------------------------------------------
\* hex_to_bytearray

HexUpper == <<"0","1","2","3","4","5","6","7","8","9","A","B","C","D","E","F">>
HexLower == <<"0","1","2","3","4","5","6","7","8","9","a","b","c","d","e","f">>

IsHexDigit(ch) == \E k \in 1..16 : HexUpper[k] = ch \/ HexLower[k] = ch

HexDigitValue(ch) == (CHOOSE k \in 1..16 : HexUpper[k] = ch \/ HexLower[k] = ch) - 1

\* The characters bytearray.fromhex skips between bytes.  "\t" stands for
\* every ASCII whitespace character other than the space.
IsAsciiSpace(ch) == ch \in {" ", "\t"}

\* hex_string.replace(" ", "")
replace_spaces(s) == SelectSeq(s, LAMBDA ch : ch /= " ")

\* bytearray.fromhex scanning from position p (1-based): whitespace is
\* skipped before a byte, then two adjacent hex digits are required.
RECURSIVE fromhex(_, _, _)
fromhex(s, p, acc) ==
    IF p > Len(s) THEN [none |-> FALSE, bytes |-> acc]
    ELSE IF IsAsciiSpace(s[p]) THEN fromhex(s, p + 1, acc)
    ELSE IF p + 1 > Len(s) \/ ~IsHexDigit(s[p]) \/ ~IsHexDigit(s[p + 1])
         THEN None
    ELSE fromhex(s, p + 2,
                 Append(acc, 16 * HexDigitValue(s[p]) + HexDigitValue(s[p + 1])))

hex_to_bytearray(s) == fromhex(replace_spaces(s), 1, <<>>)

\* bytearray.hex(): two lowercase digits per byte.
RECURSIVE bytes_hex(_)
bytes_hex(b) ==
    IF b = <<>> THEN <<>>
    ELSE <<HexLower[(b[1] \div 16) + 1], HexLower[(b[1] % 16) + 1]>>
         \o bytes_hex(Tail(b))

\* ------------------------------------------------------------------------
\* parse_payload

\* Zero-based indexing of a Python sequence.
InRange(seq, k) == 0 <= k /\ k < Len(seq)
At(seq, k) == seq[k + 1]

accelo_map == <<-7, 1, 2, 3, 4, 5, 6, 0, -6, -5, -8, 7, -4, -3, -2, -1>>

hw_family_of(hwid) == IF hwid % 2 = 1 THEN "xl" ELSE "gen2"

\* hwid & 0xCF: bits 4 and 5 cleared.
hw_version_of(hwid) == hwid - 16 * ((hwid \div 16) % 4)

\* round((battery_raw / 256.0) * 2.0 + 1.5, 2), in hundredths.
battery_voltage_of(battery_raw) == py_round(100 * battery_raw + 150 * 128, 128)

\* round(-40.0 if raw_temp == 0 else (raw_temp - 25) * 1.776964, 2), in
\* hundredths.
temperature_of(raw_temp) ==
    IF raw_temp = 0 THEN -4000
    ELSE py_round((raw_temp - 25) * 1776964, 10000)

w == 6
NumSlots == 12
MaxTime == 255

\* Variant of adv_init: the list survives from the previous call.
adv_init_stale ==
    IF result.none \/ result.raised /= "" THEN <<>> ELSE result.advertisement_peaks

\* adv = [] and last_time = 0
adv_init == <<>>
last_time_init == 0

\* Variant of slot_missing: the second byte of the slot is not required.
slot_missing_late(mfrData, bytepos) == w + bytepos + 1 > Len(mfrData)

\* "if w + bytepos + 1 >= data_length: break"
slot_missing(mfrData, bytepos) == w + bytepos + 1 >= Len(mfrData)

\* Variant of slot_dt: the + 1 is left out.
slot_dt_nobias(v) == v % 32

\* dt = (v & 0x1F) + 1
slot_dt(v) == (v % 32) + 1

\* Variant of slot_amp: a four-bit mask.
slot_amp_narrow(v) == (v \div 32) % 16

\* v = v >> 5; amp = v & 0x1F
slot_amp(v) == (v \div 32) % 32

\* "if this_time > 255: break"
time_overflow(this_time) == this_time > MaxTime

\* Variant of peak_of: the raw amp and time are emitted unscaled.
peak_of_unscaled(amp, this_time) == [a |-> amp, i |-> this_time]

\* amp = (amp - 1) * 4 + 6; adv.append({"a": amp, "i": this_time * 2})
peak_of(amp, this_time) == [a |-> (amp - 1) * 4 + 6, i |-> this_time * 2]

\* The loop over q of parse_payload, from slot q on.  The result carries
\* fault = TRUE when an index is out of range (IndexError).
RECURSIVE decode_slots(_, _, _, _)
decode_slots(mfrData, q, last_time, adv) ==
    IF q >= NumSlots THEN [fault |-> FALSE, adv |-> adv]
    ELSE
      LET bitpos == q * 10
          bytepos == bitpos \div 8
          off == bitpos % 8
      IN  IF slot_missing(mfrData, bytepos) THEN [fault |-> FALSE, adv |-> adv]
          ELSE IF ~InRange(mfrData, w + bytepos) \/ ~InRange(mfrData, w + bytepos + 1)
               THEN [fault |-> TRUE, adv |-> adv]
          ELSE
            LET v == (At(mfrData, w + bytepos) + At(mfrData, w + bytepos + 1) * 256)
                         \div (2 ^ off)
                dt == slot_dt(v)
                amp == slot_amp(v)
                this_time == last_time + dt
            IN  IF time_overflow(this_time) THEN [fault |-> FALSE, adv |-> adv]
                ELSE IF amp = 0 THEN decode_slots(mfrData, q + 1, this_time, adv)
                ELSE decode_slots(mfrData, q + 1, this_time,
                                  Append(adv, peak_of(amp, this_time)))

MinPayloadLen == 8

parse_payload(hex_payload) ==
    LET data == hex_to_bytearray(hex_payload)
    IN  IF data.none THEN None
        ELSE IF Len(data.bytes) < MinPayloadLen THEN None
        ELSE
          LET header == SubSeq(data.bytes, 1, 2)
              mfrData == SubSeq(data.bytes, 3, Len(data.bytes))
              mfr_header == SubSeq(mfrData, 1, Min2(2, Len(mfrData)))
          IN  IF \E k \in 2..5 : ~InRange(mfrData, k) THEN None
              ELSE
                LET accelo_byte == At(mfrData, 2)
                    hwid == At(mfrData, 3)
                    battery_raw == At(mfrData, 4)
                    temp_byte == At(mfrData, 5)
                    raw_temp == temp_byte % 64
                    slots == decode_slots(mfrData, 0, last_time_init, adv_init)
                IN  IF slots.fault THEN None
                    ELSE [none |-> FALSE,
                          header |-> bytes_hex(header),
                          manufacturer_header |-> bytes_hex(mfr_header),
                          accelerometer |->
                              [raw |-> accelo_byte,
                               x |-> At(accelo_map, accelo_byte % 16),
                               y |-> At(accelo_map, (accelo_byte \div 16) % 16)],
                          hardware_id |-> hwid,
                          hardware_family |-> hw_family_of(hwid),
                          hardware_version |-> hw_version_of(hwid),
                          battery_raw |-> battery_raw,
                          battery_voltage |-> battery_voltage_of(battery_raw),
                          temperature_raw |-> raw_temp,
                          temperature_c |-> temperature_of(raw_temp),
                          slow_update |-> ((temp_byte \div 64) % 2 = 1),
                          sync_pressed |-> ((temp_byte \div 128) % 2 = 1),
                          advertisement_peaks |-> slots.adv]

\* ------------------------------------------------------------------------
\* adjust_amplitude and compute_pulse_echo_time2

\* vref = 1.2421875 = 159/128
vref128 == 159

\* adjust_amplitude(a_val, i / 2.0, vref) in units of 2^-17:
\* c_val = vref128/256, d_val = (510 - i)/512.
adjust_amplitude(a_val, i) ==
    IF 256 * a_val <= vref128 THEN 0
    ELSE (256 * a_val - vref128) * (510 - i)

NumBuckets == 100

ZeroBuckets == [b \in 0..(NumBuckets - 1) |-> 0]

\* k: the indices (zero-based) at which a new segment starts.
RECURSIVE segment_starts(_, _, _)
segment_starts(c, b, k) ==
    IF b >= Len(c) THEN k
    ELSE IF At(c, b - 1).i + 2 /= At(c, b).i
         THEN segment_starts(c, b + 1, Append(k, b))
         ELSE segment_starts(c, b + 1, k)

\* The inner loop over f in range(p, q) that finds n_val.
RECURSIVE segment_max(_, _, _, _, _)
segment_max(c, f, q, m_val, n_val) ==
    IF f >= q THEN n_val
    ELSE IF At(c, f).a > m_val THEN segment_max(c, f + 1, q, At(c, f).a, f)
    ELSE segment_max(c, f + 1, q, m_val, n_val)

\* g_list: one representative index per segment.
RECURSIVE representatives(_, _, _, _, _)
representatives(c, k, b, p, g_list) ==
    IF b >= Len(k) THEN g_list
    ELSE LET q == IF b = Len(k) - 1 THEN Len(c) ELSE At(k, b + 1)
         IN  representatives(c, k, b + 1, q,
                             Append(g_list, segment_max(c, p, q, 0, 0)))

\* arr[idx] += x on a Python list of NumBuckets floats: an index in
\* -NumBuckets..-1 counts from the end, anything lower raises IndexError.
\* acc.neg records that a negative index was used.
list_add(acc, idx, x) ==
    IF acc.fault THEN acc
    ELSE IF idx >= 0 THEN [acc EXCEPT !.arr[idx] = @ + x]
    ELSE IF idx >= -NumBuckets
         THEN [acc EXCEPT !.arr[NumBuckets + idx] = @ + x, !.neg = TRUE]
    ELSE [acc EXCEPT !.fault = TRUE, !.neg = TRUE]

\* "if idx < 100: arr[idx] += x"
guarded_add(acc, idx, x) ==
    IF idx < NumBuckets THEN list_add(acc, idx, x) ELSE acc

\* Pairwise term of n_arr: the smaller of the two adjusted amplitudes
\* (units of 2^-18, hence the factor 2).
n_pair_term(p_adj, r_adj) == 2 * (IF p_adj < r_adj THEN p_adj ELSE r_adj)

\* Own term of n_arr: 0.5 * p_adj.
n_self_term(p_adj) == p_adj

\* Variant of m_pair_term: the smaller of the two, as in n_arr.
m_pair_term_min(m_adj, r_adj) == 2 * (IF m_adj < r_adj THEN m_adj ELSE r_adj)

\* Pairwise term of m_arr: (r_adj + m_adj) / 2.0.
m_pair_term(m_adj, r_adj) == r_adj + m_adj

\* Own term of m_arr: m_adj.
m_self_term(m_adj) == 2 * m_adj

\* The inner loop over f of the n_arr pass.  An IndexError (acc.fault) ends
\* every loop at once.
RECURSIVE n_inner(_, _, _, _)
n_inner(c, b, f, acc) ==
    IF acc.fault \/ f >= Len(c) THEN acc
    ELSE LET p_adj == adjust_amplitude(At(c, b).a, At(c, b).i)
             r_adj == adjust_amplitude(At(c, f).a, At(c, f).i)
             t_idx == py_round(At(c, f).i - At(c, b).i, 2)
         IN  n_inner(c, b, f + 1,
                     guarded_add(acc, t_idx, n_pair_term(p_adj, r_adj)))

\* The n_arr pass: for b in range(e).
RECURSIVE n_pass(_, _, _)
n_pass(c, b, acc) ==
    IF acc.fault \/ b >= Len(c) THEN acc
    ELSE LET p_adj == adjust_amplitude(At(c, b).a, At(c, b).i)
             idx == py_round(At(c, b).i, 2)
         IN  n_pass(c, b + 1,
                    n_inner(c, b, b + 1, guarded_add(acc, idx, n_self_term(p_adj))))

\* The inner loop over f of the m_arr pass.
RECURSIVE m_inner(_, _, _, _, _)
m_inner(c, g_list, b, f, acc) ==
    IF acc.fault \/ f >= Len(g_list) THEN acc
    ELSE LET pb == At(c, At(g_list, b))
             pf == At(c, At(g_list, f))
             m_adj == adjust_amplitude(pb.a, pb.i)
             r_adj == adjust_amplitude(pf.a, pf.i)
             t_idx == py_round(pf.i - pb.i, 2)
         IN  m_inner(c, g_list, b, f + 1,
                     guarded_add(acc, t_idx, m_pair_term(m_adj, r_adj)))

\* The m_arr pass: for b in range(len(g_list)).
RECURSIVE m_pass(_, _, _, _)
m_pass(c, g_list, b, acc) ==
    IF acc.fault \/ b >= Len(g_list) THEN acc
    ELSE LET pb == At(c, At(g_list, b))
             m_adj == adjust_amplitude(pb.a, pb.i)
             idx == py_round(pb.i, 2)
         IN  m_pass(c, g_list, b + 1,
                    m_inner(c, g_list, b, b + 1,
                            guarded_add(acc, idx, m_self_term(m_adj))))

\* score_filt in units of 2^-20.
score_filt(n_arr, m_arr) ==
    [b \in 0..(NumBuckets - 1) |->
        IF b = 0
        THEN n_arr[1] + 2 * n_arr[0] + 2 * m_arr[1] + 2 * m_arr[0]
        ELSE IF b = NumBuckets - 1
        THEN n_arr[b - 1] + 2 * n_arr[b] + 2 * m_arr[b - 1] + 2 * m_arr[b]
        ELSE (n_arr[b - 1] + n_arr[b + 1]) + 2 * n_arr[b]
             + 2 * (m_arr[b - 1] + m_arr[b + 1]) + 2 * m_arr[b]]

\* max_score = 0.005 to start with.  Scores are whole multiples of 2^-20 and
\* 5242 * 2^-20 < 0.005 < 5243 * 2^-20, so "score > 0.005" is "score > 5242"
\* in units of 2^-20.
score_threshold == 5242

FirstScanned == 2

\* The scan "for b in range(2, 100)".
RECURSIVE scan_scores(_, _, _, _)
scan_scores(score, b, max_score, n_index) ==
    IF b >= NumBuckets THEN n_index
    ELSE IF score[b] > max_score
         THEN scan_scores(score, b + 1, score[b], b)
         ELSE scan_scores(score, b + 1, max_score, n_index)

RECURSIVE max_amplitude(_)
max_amplitude(c) ==
    IF Len(c) = 1 THEN c[1].a
    ELSE LET rest == max_amplitude(Tail(c))
         IN  IF c[1].a >= rest THEN c[1].a ELSE rest

\* g_max <= 0.63453125 (= 4061/6400)
below_noise(g_max) == 6400 * g_max <= 4061

\* compute_pulse_echo_time2(peak_data).  tof in units of 1e-5; the
\* accumulators are kept in the record so that they can be inspected.
compute_pulse_echo_time2(c) ==
    IF c = <<>>
    THEN [fault |-> FALSE, neg |-> FALSE, tof |-> 0, n_index |-> 0,
          g_list |-> <<>>, n_arr |-> ZeroBuckets, m_arr |-> ZeroBuckets]
    ELSE
      LET k == segment_starts(c, 1, <<0>>)
          g_list == representatives(c, k, 0, 0, <<>>)
          empty == [arr |-> ZeroBuckets, fault |-> FALSE, neg |-> FALSE]
          n_acc == n_pass(c, 0, empty)
          m_acc == IF n_acc.fault THEN n_acc ELSE m_pass(c, g_list, 0, empty)
      IN  IF n_acc.fault \/ m_acc.fault
          THEN [fault |-> TRUE, neg |-> TRUE, tof |-> 0, n_index |-> 0,
                g_list |-> g_list, n_arr |-> n_acc.arr, m_arr |-> m_acc.arr]
          ELSE
            LET n_index == scan_scores(score_filt(n_acc.arr, m_acc.arr),
                                       FirstScanned, score_threshold, 0)
            IN  [fault |-> FALSE, neg |-> (n_acc.neg \/ m_acc.neg),
                 tof |-> IF below_noise(max_amplitude(c)) THEN 0 ELSE 2 * n_index,
                 n_index |-> n_index,
                 g_list |-> g_list, n_arr |-> n_acc.arr, m_arr |-> m_acc.arr]

\* ------------------------------------------------------------------------
\* Level conversions

\* 13700 * tof + 0.5 in units of 1e-3 inch.
legacy_level_inches(tof) == 137 * tof + 500

\* legacy_level_inches(tof) * 2.54 in units of 1e-5 cm.
legacy_level_cm(tof) == legacy_level_inches(tof) * 254

\* 0.0381 m in units of 1e-4 m.
MinTankHeight == 381

\* Variant of clamped_percentage: the upper clamp is left out.
clamped_percentage_open(tof, th) ==
    LET den == 1000 * (th - MinTankHeight)
        num == 98 * (legacy_level_cm(tof) - 1000 * MinTankHeight) + 2 * den
    IN  IF num < 2 * den THEN 2 ELSE py_round(num, den)

\* Lines 207-213 of legacy_level_percentage: level_meters in units of
\* 1e-7 m is legacy_level_cm; the percentage is the rational
\* 98 * (level_meters - 0.0381) / (tank_height - 0.0381) + 2 = num / den,
\* clamped to [2, 100] and rounded.
clamped_percentage(tof, th) ==
    LET den == 1000 * (th - MinTankHeight)
        num == 98 * (legacy_level_cm(tof) - 1000 * MinTankHeight) + 2 * den
    IN  IF num < 2 * den THEN 2
        ELSE IF num > 100 * den THEN 100
        ELSE py_round(num, den)

\* Variant of legacy_level_percentage: only a tank height of at most zero
\* counts as too low.
legacy_level_percentage_zero(tof, th) ==
    IF th <= 0 THEN 100 ELSE clamped_percentage(tof, th)

legacy_level_percentage(tof, th) ==
    IF th <= MinTankHeight THEN 100 ELSE clamped_percentage(tof, th)

\* ------------------------------------------------------------------------
\* process_hex_string

\* Variant of is_empty_of: a tolerance instead of the exact comparison.
is_empty_within(tof) == tof <= 4

\* is_empty = tof == 0
is_empty_of(tof) == tof = 0

\* parsed = parse_payload(hex_string), with the "if not hex_string" test.
parsed_of(hs) == IF hs = <<>> THEN None ELSE parse_payload(hs)

\* The value compute_pulse_echo_time2 returns inside process_hex_string,
\* with its accumulators; None when the payload did not parse.
echo_of(parsed) ==
    IF parsed.none THEN None
    ELSE compute_pulse_echo_time2(parsed.advertisement_peaks)

\* Lines 222-239: the result record built from parsed and tof.
result_of(parsed, e, th) ==
    IF parsed.none THEN None
    ELSE IF e.fault THEN [none |-> FALSE, raised |-> "IndexError"]
    ELSE LET tof == e.tof
             is_empty == is_empty_of(tof)
         IN  [raised |-> "",
              tof |-> tof,
              level_inches |-> legacy_level_inches(tof),
              level_cm |-> legacy_level_cm(tof),
              is_empty |-> is_empty,
              percentage |-> IF ~is_empty
                             THEN legacy_level_percentage(tof, th)
                             ELSE 0] @@ parsed

process_hex_string(hs, th) ==
    LET parsed == parsed_of(hs)
    IN  result_of(parsed, echo_of(parsed), th)

\* ------------------------------------------------------------------------
\* get_example_hex_strings

example_hex_strings == <<
    <<"1","A","F","F","0","D","0","0","0","0","0","2","B","7","6","5",
      "9","2","4","F","3","1","0","3","0","2","1","5","7","C","A","0",
      "8","0","0","3","0","D","7","4","E","0","8","1","0","7","E","A",
      "2","8","7","B","2","7","0","3","0","2","A","0","A","D">>,
    <<"1","A","F","F","0","D","0","0","0","0","0","2","B","8","6","7",
      "F","3","4","E","3","1","8","3","0","5","1","C","0","4","B","0",
      "8","0","0","1","0","0","0","0","8","0","8","1","0","2","7","5",
      "2","8","7","B","2","7","0","3","0","2","A","0","A","D">>,
    <<"1","A","F","F","0","D","0","0","0","0","0","2","B","5","6","7",
      "D","3","C","E","3","1","4","7","0","4","1","C","0","8","8","0",
      "4","1","0","4","1","C","2","8","E","0","4","1","0","0","7","E",
      "2","8","7","B","2","7","0","3","0","2","A","0","A","D">>,
    <<"1","A","F","F","0","D","0","0","0","0","0","2","A","C","6","7",
      "1","5","3","C","E","0","4","1","0","0","0","0","0","C","3","0",
      "C","0","0","0","0","3","6","C","9","0","8","0","0","7","4","D",
      "2","8","7","B","2","7","0","3","0","2","A","0","A","D">>>>

\* ------------------------------------------------------------------------
\* Inputs.  A text is a sequence of one-character strings.

\* Bounds of the input space.
PatLen == 2
MaxPeakLen == 16
MaxEchoPeaks == 3

\* process_hex_string's default tank_height, 0.254 m.
DefaultTankHeight == 2540

\* Tank heights tried: negative, zero, the 0.0381 m threshold, just above
\* it, the default and a tall tank.
TankHeights == {-100, 0, MinTankHeight, 400, DefaultTankHeight, 10000}

\* The first eight bytes of a payload: header 1A FF, manufacturer header
\* 0D 00, accelerometer, hardware id, battery, temperature and flags.
PrefixBytes(accelo_byte, hwid, battery_raw, temp_byte) ==
    <<26, 255, 13, 0, accelo_byte, hwid, battery_raw, temp_byte>>

\* Hardware ids, with the other header fields they are tried with: an even
\* id (gen2, as in the examples) and an odd one (xl).
Prefixes == {PrefixBytes(0, 2, 183, 101), PrefixBytes(164, 3, 16, 192)}

\* Bytes the peak region is built from: 00 (dt 1, amp 0), 1F (dt 32) and
\* 21 (dt 2, amp 1 in the first slot).
PeakByteValues == {0, 31, 33}

\* Four packed slots with dt = 32 and amp = 0: the time axis advances by
\* 128 and no peak is emitted.
QuietLead == <<31, 124, 240, 193, 7>>

Leads == {<<>>, QuietLead}

\* The peak region: the first len bytes of lead followed by pat repeated.
PeakRegion(lead, pat, len) ==
    [k \in 1..len |->
        IF k <= Len(lead) THEN lead[k] ELSE pat[((k - Len(lead) - 1) % Len(pat)) + 1]]

Payloads ==
    {pre \o PeakRegion(lead, pat, len) :
        pre \in Prefixes, lead \in Leads,
        pat \in [1..PatLen -> PeakByteValues], len \in 0..MaxPeakLen}

\* Payloads of fewer than MinPayloadLen bytes.
ShortPayloads ==
    {SubSeq(pre, 1, len) : pre \in Prefixes, len \in 0..(MinPayloadLen - 1)}

\* The text of a byte sequence, two digits per byte from the table digits,
\* each byte followed by sep.
RECURSIVE HexText(_, _, _)
HexText(b, digits, sep) ==
    IF b = <<>> THEN <<>>
    ELSE <<digits[(b[1] \div 16) + 1], digits[(b[1] % 16) + 1]>> \o sep
         \o HexText(Tail(b), digits, sep)

\* The ways a payload is written down.
TextForms == {"upper", "lower", "spaced", "tabbed", "split", "nonhex", "odd"}

FormText(b, form) ==
    LET up == HexText(b, HexUpper, <<>>)
    IN  CASE form = "upper"  -> up
          [] form = "lower"  -> HexText(b, HexLower, <<>>)
          [] form = "spaced" -> HexText(b, HexUpper, <<" ">>)
          [] form = "tabbed" -> HexText(b, HexLower, <<"\t">>)
          [] form = "split"  -> <<up[1], "\t">> \o Tail(up)
          [] form = "nonhex" -> <<"Z", "Z">> \o Tail(Tail(up))
          [] form = "odd"    -> SubSeq(up, 1, Len(up) - 1)

\* The payloads written in every form: the short ones and those with at
\* most PatLen bytes of peak data.
FormPayloads ==
    {b \in Payloads \cup ShortPayloads : Len(b) > 0 /\ Len(b) <= MinPayloadLen + PatLen}

\* The arguments process_hex_string is called with: every payload in upper
\* case with every tank height, the payloads of FormPayloads in every
\* form with the default height, the empty text and the example strings.
ProcessInputs ==
    {<<FormText(b, "upper"), th>> : b \in Payloads, th \in TankHeights}
    \cup {<<FormText(b, form), DefaultTankHeight>> :
            b \in FormPayloads, form \in TextForms}
    \cup {<<<<>>, DefaultTankHeight>>}
    \cup {<<example_hex_strings[k], th>> :
            k \in 1..Len(example_hex_strings), th \in TankHeights}

\* Peak lists compute_pulse_echo_time2 is called with directly: amplitudes
\* below and above the noise floor, time offsets even and odd, in any
\* order, one of them beyond the last bucket.
EchoAmplitudes == {0, 6}
EchoTimes == {2, 4, 7, 420}
EchoPeaks == [a : EchoAmplitudes, i : EchoTimes]

RECURSIVE SeqsUpTo(_, _)
SeqsUpTo(S, n) ==
    IF n = 0 THEN {<<>>}
    ELSE LET shorter == SeqsUpTo(S, n - 1)
         IN  shorter \cup {Append(q, x) : q \in {r \in shorter : Len(r) = n - 1}, x \in S}

EchoInputs == SeqsUpTo(EchoPeaks, MaxEchoPeaks)

\* ------------------------------------------------------------------------
\* Specification Spec: one call of process_hex_string on each input.

Init == /\ pc = "start"
        /\ \E inp \in ProcessInputs : hex_string = inp[1] /\ tank_height = inp[2]
        /\ result = None
        /\ peak_data = <<>>
        /\ echo = None
        /\ pinned = None

\* echo keeps what compute_pulse_echo_time2 computed during the call.
Process ==
    /\ pc = "start"
    /\ LET parsed == parsed_of(hex_string)
           e == echo_of(parsed)
       IN  /\ echo' = e
           /\ result' = result_of(parsed, e, tank_height)
    /\ pc' = "done"
    /\ UNCHANGED <<hex_string, tank_height, peak_data, pinned>>

Next == Process

Spec == Init /\ [][Next]_vars

\* ------------------------------------------------------------------------
\* Specification SpecEcho: one call of compute_pulse_echo_time2 on each
\* peak list.

InitEcho == /\ pc = "start"
            /\ hex_string = <<>>
            /\ tank_height = DefaultTankHeight
            /\ result = None
            /\ peak_data \in EchoInputs
            /\ echo = None
            /\ pinned = None

Echo ==
    /\ pc = "start"
    /\ echo' = compute_pulse_echo_time2(peak_data)
    /\ pc' = "done"
    /\ UNCHANGED <<hex_string, tank_height, result, peak_data, pinned>>

NextEcho == Echo

SpecEcho == InitEcho /\ [][NextEcho]_vars
\* ------------------------------------------------------------------------
\* Specification SpecCalls: any sequence of calls of process_hex_string.
\* pinned remembers one earlier call (its arguments and its result) and
\* whether a call made since then has failed.

CallTexts ==
    {example_hex_strings[1],
     example_hex_strings[4],
     FormText(PrefixBytes(164, 3, 16, 192) \o <<33, 31, 33, 31, 33>>, "spaced"),
     FormText(PrefixBytes(0, 2, 183, 101) \o <<33, 31, 33>>, "nonhex"),
     FormText(<<26, 255, 13, 0, 0, 2, 183>>, "upper"),
     <<>>}

CallHeights == {DefaultTankHeight, 400}

InitCalls == /\ pc = "idle"
             /\ hex_string = <<>>
             /\ tank_height = DefaultTankHeight
             /\ result = None
             /\ peak_data = <<>>
             /\ echo = None
             /\ pinned = None

Call ==
    \E hs \in CallTexts, th \in CallHeights :
        LET parsed == parsed_of(hs)
            e == echo_of(parsed)
            r == result_of(parsed, e, th)
        IN  /\ hex_string' = hs
            /\ tank_height' = th
            /\ echo' = e
            /\ result' = r
            /\ pc' = "done"
            /\ pinned' \in
                 IF pinned.none
                 THEN {pinned,
                       [none |-> FALSE, hex_string |-> hs, tank_height |-> th,
                        result |-> r, failed |-> FALSE]}
                 ELSE {[pinned EXCEPT !.failed = @ \/ r.none]}
            /\ UNCHANGED peak_data

NextCalls == Call

SpecCalls == InitCalls /\ [][NextCalls]_vars

\* ------------------------------------------------------------------------
\* What the properties below speak about

\* The call has returned.
Returned == pc = "done"

\* process_hex_string returned a frame (not None, no exception).
HasFrame == Returned /\ ~result.none /\ result.raised = ""

\* The bytes of the input and its manufacturer-data region, as decoded by
\* hex_to_bytearray.
InputBytes == hex_to_bytearray(hex_string).bytes
MfrData == SubSeq(InputBytes, 3, Len(InputBytes))

\* Bit n (n = 0 is the lowest bit of the first byte) of the peak region
\* that starts at manufacturer-data offset w.
PeakBit(mfr, n) == (At(mfr, w + (n \div 8)) \div (2 ^ (n % 8))) % 2

\* The number made of bits lo .. lo + 4 of slot q, lowest bit first.
SlotField(mfr, q, lo) ==
    PeakBit(mfr, 10 * q + lo)
    + 2 * PeakBit(mfr, 10 * q + lo + 1)
    + 4 * PeakBit(mfr, 10 * q + lo + 2)
    + 8 * PeakBit(mfr, 10 * q + lo + 3)
    + 16 * PeakBit(mfr, 10 * q + lo + 4)

RefDt(mfr, q) == SlotField(mfr, q, 0) + 1
RefAmp(mfr, q) == SlotField(mfr, q, 5)

\* Both bytes of slot q are present.
SlotPresent(mfr, q) ==
    InRange(mfr, w + ((10 * q) \div 8)) /\ InRange(mfr, w + ((10 * q) \div 8) + 1)

\* The running sum of the dt of slots 0 .. q.
RECURSIVE RefTime(_, _)
RefTime(mfr, q) ==
    IF q < 0 THEN 0 ELSE RefTime(mfr, q - 1) + RefDt(mfr, q)

\* The first slot at which the reference decoding stops: a slot whose
\* bytes are missing or whose time exceeds 255, or 12 when there is none.
RefStop(mfr) ==
    CHOOSE q \in 0..NumSlots :
        /\ \A j \in 0..(q - 1) : SlotPresent(mfr, j) /\ RefTime(mfr, j) <= MaxTime
        /\ q = NumSlots \/ ~SlotPresent(mfr, q) \/ RefTime(mfr, q) > MaxTime

\* The reference 10-bit decoding: the slots before RefStop with a nonzero
\* amp, in slot order.
RefPackedPeaks(mfr) ==
    LET stop == RefStop(mfr)
        kept == SelectSeq([k \in 1..stop |-> k - 1], LAMBDA q : RefAmp(mfr, q) /= 0)
    IN  [k \in 1..Len(kept) |->
            [a |-> (RefAmp(mfr, kept[k]) - 1) * 4 + 6,
             i |-> 2 * RefTime(mfr, kept[k])]]

\* The byte-pair decoding: pairs (amp, offset) from manufacturer-data
\* offset k on, up to the first (0, 0) pair or the end of the data.
RECURSIVE RefBytePairs(_, _)
RefBytePairs(mfr, k) ==
    IF ~InRange(mfr, k + 1) THEN <<>>
    ELSE IF At(mfr, k) = 0 /\ At(mfr, k + 1) = 0 THEN <<>>
    ELSE <<[a |-> At(mfr, k), i |-> At(mfr, k + 1)]>> \o RefBytePairs(mfr, k + 2)

\* ------------------------------------------------------------------------
\* C1

C6_PackedForXl ==
    (HasFrame /\ result.hardware_id % 2 = 1)
        => /\ result.hardware_family = "xl"
           /\ result.advertisement_peaks = RefPackedPeaks(MfrData)

\* An xl frame where a slot with amp = 0 was skipped before a peak and the
\* decoding stopped on the time overflow.
C6_Witness ==
    /\ HasFrame
    /\ result.hardware_id % 2 = 1
    /\ LET stop == RefStop(MfrData)
       IN  /\ stop < NumSlots
           /\ SlotPresent(MfrData, stop)
           /\ RefTime(MfrData, stop) > MaxTime
           /\ \E q \in 0..(stop - 1) :
                /\ RefAmp(MfrData, q) = 0
                /\ \E r \in (q + 1)..(stop - 1) : RefAmp(MfrData, r) /= 0
\* ------------------------------------------------------------------------
\* C2

\* No bucket from FirstScanned on has a smoothed score above 0.005.
NoDetection ==
    \A b \in FirstScanned..(NumBuckets - 1) :
        score_filt(echo.n_arr, echo.m_arr)[b] <= score_threshold

\* The peak list is empty or its largest amplitude is at most 0.63453125.
NoSignal ==
    \/ result.advertisement_peaks = <<>>
    \/ \A k \in 1..Len(result.advertisement_peaks) :
          6400 * result.advertisement_peaks[k].a <= 4061

\* C2 as stated: is_empty, tof = 0 and "no peaks or only noise" are
\* equivalent.
C2_Original ==
    HasFrame => /\ result.is_empty <=> (result.tof = 0)
                /\ (result.tof = 0) <=> NoSignal

\* C2, amended: is_empty holds exactly when tof = 0, and tof = 0 exactly
\* when there are no peaks, or only noise, or no bucket 2..99 scores above
\* 0.005 (the scan then leaves the best index at 0).
C2_EmptyIffNoDetection ==
    HasFrame => /\ result.is_empty <=> (result.tof = 0)
                /\ (result.tof = 0) <=> (NoSignal \/ NoDetection)

\* A frame with a peak above the noise level and tof = 0.
C2_Witness ==
    /\ HasFrame
    /\ ~NoSignal
    /\ result.tof = 0
    /\ result.is_empty

\* ------------------------------------------------------------------------
\* C3

\* The input with its spaces removed.
Unspaced == SelectSeq(hex_string, LAMBDA ch : ch /= " ")

HexDigitsBefore(s, p) == Cardinality({j \in 1..(p - 1) : IsHexDigit(s[j])})

\* s is an even-length string of hex digits.
PlainHex(s) ==
    /\ \A p \in 1..Len(s) : IsHexDigit(s[p])
    /\ Len(s) % 2 = 0

\* s is made of two-digit bytes with ASCII whitespace only between them.
SeparatedHex(s) ==
    /\ \A p \in 1..Len(s) :
          \/ IsHexDigit(s[p])
          \/ IsAsciiSpace(s[p]) /\ HexDigitsBefore(s, p) % 2 = 0
    /\ HexDigitsBefore(s, Len(s) + 1) % 2 = 0

FrameFields ==
    {"none", "raised", "header", "manufacturer_header", "accelerometer",
     "hardware_id", "hardware_family", "hardware_version", "battery_raw",
     "battery_voltage", "temperature_raw", "temperature_c", "slow_update",
     "sync_pressed", "advertisement_peaks", "tof", "level_inches", "level_cm",
     "is_empty", "percentage"}

\* The result is a whole ResultFrame.
CompleteFrame == HasFrame /\ DOMAIN result = FrameFields

\* C3 as stated: None is returned exactly when the input without its
\* spaces is not an even-length string of hex digits or has fewer than 8
\* bytes; otherwise a complete frame is returned.
C3_Original ==
    Returned =>
        IF PlainHex(Unspaced) /\ Len(Unspaced) \div 2 >= MinPayloadLen
        THEN CompleteFrame
        ELSE result = None

\* C3, amended: None is returned exactly when the input without its
\* spaces is not a sequence of two-digit hex bytes with at most ASCII
\* whitespace between them (bytearray.fromhex skips it), or has fewer than
\* 8 bytes; otherwise a complete frame is returned, so the IndexError
\* handler never runs.
C3_NoneIffMalformedOrShort ==
    Returned =>
        IF /\ SeparatedHex(Unspaced)
           /\ HexDigitsBefore(Unspaced, Len(Unspaced) + 1) \div 2 >= MinPayloadLen
        THEN CompleteFrame
        ELSE result = None

\* A frame returned for an input that has a tab between its bytes.
C3_Witness ==
    /\ CompleteFrame
    /\ \E p \in 1..Len(hex_string) : hex_string[p] = "\t"
    /\ Len(result.advertisement_peaks) > 0

\* ------------------------------------------------------------------------
\* C4

\* C4: the percentage of a frame is an integer in 0..100, 0 when is_empty
\* and otherwise legacy_level_percentage(tof, tank_height), in 2..100.
C4_PercentageRange ==
    HasFrame =>
        /\ result.percentage \in 0..100
        /\ result.is_empty => result.percentage = 0
        /\ ~result.is_empty =>
              /\ result.percentage = legacy_level_percentage(result.tof, tank_height)
              /\ result.percentage \in 2..100

\* A frame that is not empty with a percentage strictly between the clamps.
C4_Witness ==
    /\ HasFrame
    /\ ~result.is_empty
    /\ result.percentage \in 3..99

\* ------------------------------------------------------------------------
\* C5

\* C5: with tof /= 0 and a tank height of at most 0.0381 m (zero and
\* negative included) the percentage is 100.
C5_LowTankIsFull ==
    (HasFrame /\ result.tof /= 0 /\ tank_height <= 381)
        => result.percentage = 100

\* A detection with a negative tank height.
C5_Witness ==
    /\ HasFrame
    /\ result.tof /= 0
    /\ tank_height < 0
    /\ result.percentage = 100

\* ------------------------------------------------------------------------
\* C10

\* C10: a decoded peak list has at most 12 entries, even time offsets in
\* 2..510 that increase strictly, amplitudes in {6, 10, .., 126}; and no
\* bucket index computed from it is negative.
C10_DecodedPeaksShape ==
    HasFrame =>
        LET peaks == result.advertisement_peaks
        IN  /\ Len(peaks) <= 12
            /\ \A k \in 1..Len(peaks) :
                  /\ peaks[k].i % 2 = 0
                  /\ peaks[k].i \in 2..510
                  /\ peaks[k].a \in {6 + 4 * m : m \in 0..30}
            /\ \A k \in 1..(Len(peaks) - 1) : peaks[k].i < peaks[k + 1].i
            /\ ~echo.neg
            /\ ~echo.fault

\* A frame with twelve peaks, the last one late on the time axis.
C10_Witness ==
    /\ HasFrame
    /\ Len(result.advertisement_peaks) = 12
    /\ result.advertisement_peaks[12].i > 200
\* ------------------------------------------------------------------------
\* C7

\* The call just made has the arguments of the pinned one.
SameCallAsPinned ==
    /\ Returned
    /\ ~pinned.none
    /\ pinned.hex_string = hex_string
    /\ pinned.tank_height = tank_height

RECURSIVE SumOf(_)
SumOf(fn) ==
    IF DOMAIN fn = {} THEN 0
    ELSE LET x == CHOOSE y \in DOMAIN fn : TRUE
         IN  fn[x] + SumOf([y \in DOMAIN fn \ {x} |-> fn[y]])

\* round(time) of the peak at position b of c, and round(time_f - time_b).
OwnIndex(c, b) == py_round(At(c, b).i, 2)
PairIndex(c, b, f) == py_round(At(c, f).i - At(c, b).i, 2)

Adjusted(c, b) == adjust_amplitude(At(c, b).a, At(c, b).i)

\* A contribution with index idx lands in bucket k.  When out-of-range
\* contributions are dropped, only idx = k does; a Python list also takes
\* a negative index, counting from the end.
Lands(idx, k, dropped) ==
    IF dropped THEN idx = k
    ELSE idx < NumBuckets /\ (idx = k \/ idx + NumBuckets = k)

Positions(n) == 0..(n - 1)
OrderedPairs(n) == {pr \in Positions(n) \X Positions(n) : pr[1] < pr[2]}

\* Bucket k of N (units of 2^-18): half the adjusted amplitude of every
\* peak, and for every pair the smaller of the two adjusted amplitudes.
StatedN(c, k, dropped) ==
    SumOf([b \in {x \in Positions(Len(c)) : Lands(OwnIndex(c, x), k, dropped)}
              |-> Adjusted(c, b)])
    + SumOf([pr \in {x \in OrderedPairs(Len(c)) :
                       Lands(PairIndex(c, x[1], x[2]), k, dropped)}
                |-> 2 * Min2(Adjusted(c, pr[1]), Adjusted(c, pr[2]))])

\* Bucket k of M (units of 2^-18) over the representatives g: own_twice
\* times half the adjusted amplitude of every representative, and for
\* every pair the average of the two adjusted amplitudes.
StatedM(c, g, k, dropped, own_twice) ==
    SumOf([b \in {x \in Positions(Len(g)) : Lands(OwnIndex(c, At(g, x)), k, dropped)}
              |-> own_twice * Adjusted(c, At(g, b))])
    + SumOf([pr \in {x \in OrderedPairs(Len(g)) :
                       Lands(PairIndex(c, At(g, x[1]), At(g, x[2])), k, dropped)}
                |-> Adjusted(c, At(g, pr[1])) + Adjusted(c, At(g, pr[2]))])

Buckets == 0..(NumBuckets - 1)

\* ------------------------------------------------------------------------
\* C8

\* C8: for every peak list, a contribution whose bucket index is outside
\* 0..99 is dropped: no error is raised and every bucket of N and M holds
\* exactly the contributions whose index is that bucket.
C8_OutOfRangeDropped ==
    Returned =>
        /\ ~echo.fault
        /\ \A k \in Buckets :
              /\ echo.n_arr[k] = StatedN(peak_data, k, TRUE)
              /\ echo.m_arr[k] = StatedM(peak_data, echo.g_list, k, TRUE, 2)

\* ------------------------------------------------------------------------
\* C9

\* C9 as stated: every representative adds half its adjusted amplitude to
\* M, every pair of representatives the average.
C9_Original ==
    (Returned /\ ~echo.fault) =>
        \A k \in Buckets :
            echo.m_arr[k] = StatedM(peak_data, echo.g_list, k, FALSE, 1)

\* C9, amended: M is built over the representatives by the scheme of N
\* with two differences: every representative adds its whole adjusted
\* amplitude (N adds half), and every pair adds the average of the two
\* adjusted amplitudes (N adds the smaller).
C9_WholeOwnTermAndAverage ==
    (Returned /\ ~echo.fault) =>
        \A k \in Buckets :
            /\ echo.m_arr[k] = StatedM(peak_data, echo.g_list, k, FALSE, 2)
            /\ echo.n_arr[k] = StatedN(peak_data, k, FALSE)

\* Two representatives with different nonzero adjusted amplitudes whose
\* pair lands in a bucket.
C9_Witness ==
    /\ Returned
    /\ ~echo.fault
    /\ \E b, f \in Positions(Len(echo.g_list)) :
          /\ b < f
          /\ Adjusted(peak_data, At(echo.g_list, b)) > 0
          /\ Adjusted(peak_data, At(echo.g_list, f)) > 0
          /\ Adjusted(peak_data, At(echo.g_list, b))
                /= Adjusted(peak_data, At(echo.g_list, f))
          /\ PairIndex(peak_data, At(echo.g_list, b), At(echo.g_list, f)) \in Buckets
====
